---- MODULE Spec2Model ----
(***************************************************************************)
(* A model of the FLUX//ID application store (src/lib/store.ts): a         *)
(* zustand store wrapped in the persist middleware, keyed                  *)
(* 'flux-id-store'.  The in-memory state is the seven data fields of       *)
(* `initialState`; every mutation calls set() and then writes the          *)
(* partialized state to storage.  The components that call the store      *)
(* (the OTP input, the file upload, the AI autofill demo and the avatar    *)
(* stack) are modelled with their local state, their timers and their      *)
(* pending promises.                                                       *)
(*                                                                         *)
(* JavaScript objects are functions from their own keys to values, so that *)
(* a spread ({...a, ...b}) and JSON.stringify (which drops keys whose      *)
(* value is undefined) are computed as the runtime computes them.          *)
(***************************************************************************)
EXTENDS Integers, Sequences, FiniteSets, TLC

VARIABLES persona, profile, folderItems, formData, aiStatus, preferences,
          completedDays, storage, storageAvailable, storageFull, threw,
          marked, last, otherTab, writer,
          otp, upload, autofill, avatar

vars == <<persona, profile, folderItems, formData, aiStatus, preferences,
          completedDays, storage, storageAvailable, storageFull, threw,
          marked, last, otherTab, writer,
          otp, upload, autofill, avatar>>

\* The store, its storage and the history of the store operations.
storeVars == <<persona, profile, folderItems, formData, aiStatus, preferences,
               completedDays, storage, storageAvailable, storageFull, threw,
               marked, last, otherTab, writer>>

\* The local state of the components that call the store.
componentVars == <<otp, upload, autofill, avatar>>

(***************************************************************************)
(* Values                                                                  *)
(***************************************************************************)

\* The JavaScript value undefined (only string-typed fields are ever given it).
Undefined == "undefined"

\* The object {} .
EmptyObject == [k \in {} |-> Undefined]

\* Fields whose values are strings: the ones an input may set to undefined.
StringFields == {"mode", "name", "role", "avatarSeed", "theme"}

IsUndefined(k, v) == k \in StringFields /\ v = Undefined

DefaultColors == <<"#7C3AED", "#06B6D4", "#22C55E", "#F59E0B", "#EF4444">>

initialState ==
  [ persona       |-> [mode |-> "professional", colors |-> DefaultColors],
    profile       |-> [name |-> "", role |-> "", avatarSeed |-> "",
                       verified |-> FALSE, links |-> << >>],
    folderItems   |-> << >>,
    formData      |-> EmptyObject,
    aiStatus      |-> "idle",
    preferences   |-> [reduceMotion |-> FALSE, disableShaders |-> FALSE,
                       theme |-> "dark", soundEnabled |-> FALSE],
    completedDays |-> << >> ]

\* The storage key of the persist options; the model has this one slot.
name == "flux-id-store"

\* The persist middleware's default options.version.
version == 0

(***************************************************************************)
(* Input domains.  Every specification below runs every operation; each    *)
(* draws the inputs of the entity it studies from the larger set and the   *)
(* inputs of the other entities from a one-element set.                    *)
(***************************************************************************)

\* Days passed to markDayComplete: days inside 1..8 and days beyond 8.
MaxDay == 10
DayInputs == (1..3) \cup (8..MaxDay)
DayFew    == {1}

ModeInputs == {"bogus", Undefined}
AltColors  == <<"#000000">>

PersonaPartials ==
  {EmptyObject}
    \cup {[mode |-> m] : m \in ModeInputs}
    \cup {[colors |-> AltColors]}
    \cup {[mode |-> m, colors |-> AltColors] : m \in ModeInputs}
PersonaFew == {[mode |-> "playful"]}

ProfilePartials ==
  {EmptyObject, [name |-> "Ada"], [name |-> Undefined],
   [role |-> "dev", verified |-> TRUE]}
ProfileFew == {[name |-> "Ada"]}

PreferencesPartials ==
  {EmptyObject, [theme |-> "light"], [theme |-> Undefined],
   [reduceMotion |-> TRUE, soundEnabled |-> TRUE]}
PreferencesFew == {[theme |-> "light"]}

FolderItemInputs ==
  { [id |-> "a", name |-> "X", type |-> "doc"],
    [id |-> "a", name |-> "Y", type |-> "doc"],
    [id |-> "b", name |-> "X", type |-> "img"],
    [id |-> "c", name |-> "Z", type |-> "link"] }
FolderItemFew == {[id |-> "a", name |-> "X", type |-> "doc"]}

FolderIdInputs == {"a", "b", "c", "zz"}
FolderIdFew    == {"a"}

FormKeys   == {"foo", "baz"}
FormValues == {"bar", "qux", Undefined}
FormDataInputs == UNION {[S -> FormValues] : S \in SUBSET FormKeys}
FormDataFew    == {[foo |-> "bar"]}

AiStatusInputs == {"idle", "fetching", "ready"}
AiStatusFew    == {"fetching"}

(***************************************************************************)
(* Object helpers                                                          *)
(***************************************************************************)

\* A spread in which a key of b whose value is undefined does not overwrite.
SpreadDefined(a, b) ==
  [k \in DOMAIN a \cup DOMAIN b |->
     IF k \in DOMAIN b /\ (k \notin DOMAIN a \/ ~IsUndefined(k, b[k]))
     THEN b[k] ELSE a[k]]

\* { ...a, ...b }
Spread(a, b) ==
  [k \in DOMAIN a \cup DOMAIN b |-> IF k \in DOMAIN b THEN b[k] ELSE a[k]]

Range(s) == {s[i] : i \in DOMAIN s}

(***************************************************************************)
(* Array.prototype.sort() without a comparator: the elements are compared  *)
(* as strings, by UTF-16 code unit.                                        *)
(***************************************************************************)

RECURSIVE Digits(_)
Digits(n) ==
  IF n < 10 THEN <<48 + n>> ELSE Append(Digits(n \div 10), 48 + (n % 10))

\* String(n) as its sequence of code units ("-" is 45, "0" is 48).
NumberToString(n) == IF n < 0 THEN <<45>> \o Digits(0 - n) ELSE Digits(n)

RECURSIVE StringLess(_, _)
StringLess(s, t) ==
  IF t = << >> THEN FALSE
  ELSE IF s = << >> THEN TRUE
  ELSE IF Head(s) # Head(t) THEN Head(s) < Head(t)
  ELSE StringLess(Tail(s), Tail(t))

\* x is placed before y exactly when String(x) < String(y).
DefaultCompareLess(x, y) == StringLess(NumberToString(x), NumberToString(y))

RECURSIVE InsertSorted(_, _)
InsertSorted(s, x) ==
  IF s = << >> THEN <<x>>
  ELSE IF DefaultCompareLess(x, Head(s)) THEN <<x>> \o s
  ELSE <<Head(s)>> \o InsertSorted(Tail(s), x)

RECURSIVE Sort(_)
Sort(s) == IF s = << >> THEN << >> ELSE InsertSorted(Sort(SubSeq(s, 1, Len(s) - 1)), s[Len(s)])

\* Array.prototype.includes
Includes(s, x) == \E i \in DOMAIN s : s[i] = x

(***************************************************************************)
(* Persistence: partialize, JSON.stringify / JSON.parse, the stored item   *)
(***************************************************************************)

\* JSON.stringify then JSON.parse of a flat object: a key whose value is
\* undefined is not written, so it is missing after parsing.
JsonObject(o) == [k \in {j \in DOMAIN o : ~IsUndefined(j, o[j])} |-> o[k]]

\* The same for the string dictionary formData.
JsonDict(d) == [k \in {j \in DOMAIN d : d[j] # Undefined} |-> d[k]]

\* A partialize that keeps every data field, aiStatus included.
partializeEverything(state) == state

\* partialize: the six persisted fields (aiStatus and the functions are left out).
partialize(state) ==
  [ persona       |-> state.persona,
    profile       |-> state.profile,
    folderItems   |-> state.folderItems,
    formData      |-> state.formData,
    preferences   |-> state.preferences,
    completedDays |-> state.completedDays ]

\* What JSON.parse(JSON.stringify(p)) is for the object p that partialize
\* returned: every key of p is written, the records and the dictionary
\* without their undefined values.
JsonState(p) ==
  [k \in DOMAIN p |->
     IF k \in {"persona", "profile", "preferences"} THEN JsonObject(p[k])
     ELSE IF k = "formData" THEN JsonDict(p[k])
     ELSE p[k]]

\* The contents of the storage slot `name`: nothing, a string that is not
\* JSON, or the JSON text of {state, version}.
NoItem      == [kind |-> "absent",  state |-> EmptyObject, version |-> version]
CorruptItem == [kind |-> "corrupt", state |-> EmptyObject, version |-> version]
JsonItem(st, ver) == [kind |-> "json", state |-> st, version |-> ver]

\* The item setItem writes for an in-memory state.
StoredItem(state) == JsonItem(JsonState(partialize(state)), version)

\* A rehydration that takes an item only when it holds every persisted field.
RehydrateWholeOrNothing(item, available) ==
  IF /\ available
     /\ item.kind = "json"
     /\ item.version = version
     /\ DOMAIN item.state = DOMAIN partialize(initialState)
  THEN Spread(initialState, item.state)
  ELSE initialState

\* The state of the store after rehydration from `item`: the default merge
\* of the persist middleware, { ...currentState, ...persistedState }, where
\* currentState is initialState.  A missing item, a JSON.parse failure and an
\* item of another version all leave the initial state.
Rehydrate(item, available) ==
  IF available /\ item.kind = "json" /\ item.version = version
  THEN Spread(initialState, item.state)
  ELSE initialState

\* What fails on the load path: the lookup of localStorage, or JSON.parse.
LoadFailure(item, available) ==
  IF ~available THEN "storage"
  ELSE IF item.kind = "corrupt" THEN "parse"
  ELSE "none"

\* The caught failures, were the JSON.parse failure to escape.
CaughtFailuresButParse == {"storage"}

\* The failures the middleware catches (try/catch around the storage lookup,
\* a rejected thenable around getItem).
CaughtFailures == {"storage", "parse"}

\* Whether an exception of the load path reaches the code that created the store.
RehydrateThrows(item, available) ==
  LoadFailure(item, available) \notin CaughtFailures \cup {"none"}

\* The in-memory state as one object.
State ==
  [ persona       |-> persona,
    profile       |-> profile,
    folderItems   |-> folderItems,
    formData      |-> formData,
    aiStatus      |-> aiStatus,
    preferences   |-> preferences,
    completedDays |-> completedDays ]

\* Whether the write of the persist wrapper takes place and succeeds: the
\* store has a storage, and localStorage.setItem does not throw (it throws
\* QuotaExceededError when the quota is used up).
SetItemWrites == storageAvailable /\ ~storageFull

\* Whether setItem throws.  The wrapper is `set(...args); void setItem()`
\* with no try/catch, so the exception leaves the wrapped set and the store
\* operation that called it.
SetItemThrows == storageAvailable /\ storageFull

\* A set that writes the state as it was before the update.
SetWritesPrevious(partial) ==
  LET next == Spread(State, partial) IN
    /\ persona'       = next.persona
    /\ profile'       = next.profile
    /\ folderItems'   = next.folderItems
    /\ formData'      = next.formData
    /\ aiStatus'      = next.aiStatus
    /\ preferences'   = next.preferences
    /\ completedDays' = next.completedDays
    /\ storage'       = IF SetItemWrites THEN StoredItem(State) ELSE storage
    /\ writer'        = IF SetItemWrites THEN "this" ELSE writer
    /\ threw'         = SetItemThrows
    /\ UNCHANGED <<storageAvailable, storageFull, otherTab>>

\* set(partial): the store becomes { ...state, ...partial }; then the persist
\* wrapper writes the partialized state to storage, when there is a storage.
Set(partial) ==
  LET next == Spread(State, partial) IN
    /\ persona'       = next.persona
    /\ profile'       = next.profile
    /\ folderItems'   = next.folderItems
    /\ formData'      = next.formData
    /\ aiStatus'      = next.aiStatus
    /\ preferences'   = next.preferences
    /\ completedDays' = next.completedDays
    /\ storage'       = IF SetItemWrites THEN StoredItem(next) ELSE storage
    /\ writer'        = IF SetItemWrites THEN "this" ELSE writer
    /\ threw'         = SetItemThrows
    /\ UNCHANGED <<storageAvailable, storageFull, otherTab>>

(***************************************************************************)
(* The store operations                                                    *)
(***************************************************************************)

Did(op, hit) == last' = [op |-> op, hit |-> hit]

NamesUndefined(p) == \E k \in DOMAIN p : IsUndefined(k, p[k])

\* The three members of the type of persona.mode.
PersonaModes == {"professional", "playful", "minimal"}

\* setPersona that ignores a mode outside the three modes of the type.
setPersonaValidates(p) ==
  /\ Set([persona |->
            IF "mode" \in DOMAIN p /\ p.mode \notin PersonaModes
            THEN persona
            ELSE Spread(persona, p)])
  /\ Did("setPersona", NamesUndefined(p))
  /\ UNCHANGED marked

setPersona(p) ==
  /\ Set([persona |-> Spread(persona, p)])
  /\ Did("setPersona", NamesUndefined(p))
  /\ UNCHANGED marked

setProfile(p) ==
  /\ Set([profile |-> Spread(profile, p)])
  /\ Did("setProfile", NamesUndefined(p))
  /\ UNCHANGED marked

\* addFolderItem that keeps an item of the same id.
addFolderItemNoFilter(item) ==
  /\ Set([folderItems |-> Append(folderItems, item)])
  /\ Did("addFolderItem", \E i \in DOMAIN folderItems :
                             /\ folderItems[i].id = item.id
                             /\ folderItems[i].name # item.name)
  /\ UNCHANGED marked

\* addFolderItem that puts the new item in front of the others.
addFolderItemInFront(item) ==
  /\ Set([folderItems |->
            <<item>> \o SelectSeq(folderItems, LAMBDA i : i.id # item.id)])
  /\ Did("addFolderItem", \E i \in DOMAIN folderItems :
                             /\ folderItems[i].id = item.id
                             /\ folderItems[i].name # item.name)
  /\ UNCHANGED marked

addFolderItem(item) ==
  /\ Set([folderItems |->
            Append(SelectSeq(folderItems, LAMBDA i : i.id # item.id), item)])
  /\ Did("addFolderItem", \E i \in DOMAIN folderItems :
                             /\ folderItems[i].id = item.id
                             /\ folderItems[i].name # item.name)
  /\ UNCHANGED marked

\* removeFolderItem with the test of the filter inverted.
removeFolderItemInverted(id) ==
  /\ Set([folderItems |-> SelectSeq(folderItems, LAMBDA i : i.id = id)])
  /\ Did("removeFolderItem", \E i \in DOMAIN folderItems : folderItems[i].id = id)
  /\ UNCHANGED marked

removeFolderItem(id) ==
  /\ Set([folderItems |-> SelectSeq(folderItems, LAMBDA i : i.id # id)])
  /\ Did("removeFolderItem", \E i \in DOMAIN folderItems : folderItems[i].id = id)
  /\ UNCHANGED marked

\* The entries of data, unfiltered.
AllEntries(data) == data

\* Object.fromEntries(Object.entries(data).filter(([_, v]) => v !== undefined))
DefinedEntries(data) ==
  [k \in {j \in DOMAIN data : data[j] # Undefined} |-> data[k]]

\* setFormData in which a key given as undefined is removed from the draft.
setFormDataUnsets(data) ==
  /\ Set([formData |->
            LET merged == Spread(formData, data) IN
              [k \in {j \in DOMAIN merged : merged[j] # Undefined} |-> merged[k]]])
  /\ Did("setFormData", \E k \in DOMAIN data : data[k] = Undefined)
  /\ UNCHANGED marked

setFormData(data) ==
  /\ Set([formData |-> Spread(formData, DefinedEntries(data))])
  /\ Did("setFormData", \E k \in DOMAIN data : data[k] = Undefined)
  /\ UNCHANGED marked

setAiStatus(status) ==
  /\ Set([aiStatus |-> status])
  /\ Did("setAiStatus", FALSE)
  /\ UNCHANGED marked

setPreferences(prefs) ==
  /\ Set([preferences |-> Spread(preferences, prefs)])
  /\ Did("setPreferences", NamesUndefined(prefs))
  /\ UNCHANGED marked

\* markDayComplete that keeps only the new day.
markDayCompleteReplaces(day) ==
  /\ Set([completedDays |->
            IF Includes(completedDays, day)
            THEN completedDays
            ELSE Sort(<<day>>)])
  /\ Did("markDayComplete", Includes(completedDays, day))
  /\ marked' = marked \cup {day}

\* markDayComplete without the includes() test.
markDayCompleteAlwaysAdds(day) ==
  /\ Set([completedDays |-> Sort(Append(completedDays, day))])
  /\ Did("markDayComplete", Includes(completedDays, day))
  /\ marked' = marked \cup {day}

\* markDayComplete that also puts aiStatus back to 'idle'.
markDayCompleteClearsStatus(day) ==
  /\ Set([completedDays |->
            IF Includes(completedDays, day)
            THEN completedDays
            ELSE Sort(Append(completedDays, day)),
          aiStatus |-> "idle"])
  /\ Did("markDayComplete", Includes(completedDays, day))
  /\ marked' = marked \cup {day}

markDayComplete(day) ==
  /\ Set([completedDays |->
            IF Includes(completedDays, day)
            THEN completedDays
            ELSE Sort(Append(completedDays, day))])
  /\ Did("markDayComplete", Includes(completedDays, day))
  /\ marked' = marked \cup {day}

\* reset that restores the records but leaves the completed days.
resetKeepsDays ==
  /\ Set([k \in DOMAIN initialState \ {"completedDays"} |-> initialState[k]])
  /\ Did("reset", State # initialState)
  /\ marked' = {}

reset ==
  /\ Set(initialState)
  /\ Did("reset", State # initialState)
  /\ marked' = {}

(***************************************************************************)
(* The OTP input (day 2).  A code is the sequence of its characters.  The  *)
(* focus (currentIndex) and the mask are left out: nothing below reads     *)
(* them.  The cells are disabled while isValidating, so the input, paste,  *)
(* key and clear handlers run only when it is false; a timer that is       *)
(* already set and a validation that is already awaited go on.             *)
(***************************************************************************)

\* The length prop (6 by default and on the page); the model follows a
\* shorter code.
length == 2

\* The timers and the validations that are followed at one time.
MaxTimers      == 2
MaxValidations == 2

\* What the user types into a cell, or pastes: e.target.value and the
\* clipboard text, as the sequence of their characters.  The cells end up
\* holding one and the same digit: the validator answers as it likes
\* whatever the code is.
TypedInputs  == { << >>, <<"1">>, <<"a">>, <<"7", "1">> }
PastedInputs == { <<"a">>, <<"1">>, <<"1", "a", "1">>, <<"1", "1", "1">> }

\* What the promise of onValidate does.
ValidatorOutcomes == {"true", "false", "rejected"}

IsDigit(c) == c \in {"0", "1", "2", "3", "4", "5", "6", "7", "8", "9"}

\* text.replace(/\D/g, '')
OnlyDigits(text) == SelectSeq(text, IsDigit)

\* text.slice(0, n)
SliceTo(text, n) == SubSeq(text, 1, IF Len(text) < n THEN Len(text) ELSE n)

\* text.slice(-1), '' for the empty text
LastChar(text) == IF text = << >> THEN "" ELSE text[Len(text)]

\* cells.map(cell => cell.value).join('') for the values `values`
RECURSIVE Join(_)
Join(values) ==
  IF values = << >> THEN << >>
  ELSE (IF Head(values) = "" THEN << >> ELSE <<Head(values)>>)
         \o Join(Tail(values))

\* The state of the component when it is mounted with or without a validator.
OtpMount(validator) ==
  [ cells            |-> [i \in 1..length |-> [value |-> "", state |-> "default"]],
    isComplete       |-> FALSE,
    isValidating     |-> FALSE,
    validationResult |-> "null",
    onValidate       |-> validator,
    timers           |-> << >>,
    validations      |-> << >>,
    event            |-> "mount",
    code             |-> << >> ]

\* updateCell(index, value, state)
updateCell(cells, index, value, state) ==
  [cells EXCEPT ![index] = [value |-> LastChar(value), state |-> state]]

\* setAllCellsState(state)
setAllCellsState(cells, state) ==
  [i \in DOMAIN cells |-> [cells[i] EXCEPT !.state = state]]

\* The end of handleComplete once the code counts as valid: the cells are
\* 'correct', markDayComplete(2) is called; when it throws, the catch block
\* sets the result to false and the cells to 'incorrect'.  finally:
\* isValidating is false.
CodeAccepted(o, code, event) ==
  /\ markDayComplete(2)
  /\ otp' = [o EXCEPT
               !.isComplete       = TRUE,
               !.isValidating     = FALSE,
               !.validationResult = IF SetItemThrows THEN "false" ELSE "true",
               !.cells            = setAllCellsState(o.cells,
                                      IF SetItemThrows THEN "incorrect"
                                      ELSE "correct"),
               !.event            = event,
               !.code             = code]

\* handleComplete(code), up to its first await, on the component state o
\* that the calling handler has left.
handleComplete(o, code) ==
  IF Len(code) # length
  THEN /\ otp' = o
       /\ UNCHANGED storeVars
  ELSE IF o.onValidate
       THEN /\ Len(o.validations) < MaxValidations
            /\ otp' = [o EXCEPT
                         !.isComplete   = TRUE,
                         !.isValidating = TRUE,
                         !.cells        = setAllCellsState(o.cells, "loading"),
                         !.validations  = Append(@, code),
                         !.event        = "validating",
                         !.code         = code]
            /\ UNCHANGED storeVars
       ELSE CodeAccepted(o, code, "accepted")

\* handleInputChange(e, index)
handleInputChange(index, typed) ==
  LET value   == OnlyDigits(typed)
      newCode == Join([i \in 1..length |->
                         IF i = index THEN LastChar(value)
                         ELSE otp.cells[i].value])
  IN
    /\ ~otp.isValidating
    /\ IF value = << >>
       THEN otp' = [otp EXCEPT !.cells = updateCell(@, index, << >>, "default"),
                               !.event = "input"]
       ELSE /\ Len(newCode) = length => Len(otp.timers) < MaxTimers
            /\ otp' = [otp EXCEPT
                         !.cells  = updateCell(@, index, value, "active"),
                         !.timers = IF Len(newCode) = length
                                    THEN Append(@, newCode) ELSE @,
                         !.event  = "input"]
    /\ UNCHANGED storeVars
    /\ UNCHANGED <<upload, autofill, avatar>>

\* The callback of setTimeout(() => handleComplete(newCode), 100).
handleCompleteTimer ==
  /\ otp.timers # << >>
  /\ handleComplete([otp EXCEPT !.timers = Tail(@)], Head(otp.timers))
  /\ UNCHANGED <<upload, autofill, avatar>>

\* handlePaste(e, startIndex)
handlePaste(pasted) ==
  LET pastedText == SliceTo(OnlyDigits(pasted), length)
      newCells   == [i \in 1..length |->
                       [ value |-> IF i <= Len(pastedText) THEN pastedText[i]
                                   ELSE "",
                         state |-> "active" ]]
      filled     == [otp EXCEPT !.cells = newCells, !.event = "paste"]
  IN
    /\ ~otp.isValidating
    /\ IF Len(pastedText) = 0
       THEN UNCHANGED <<otp, storeVars>>
       ELSE IF Len(pastedText) = length
            THEN handleComplete(filled, pastedText)
            ELSE otp' = filled /\ UNCHANGED storeVars
    /\ UNCHANGED <<upload, autofill, avatar>>

\* validatorSettles in which every outcome counts as a valid code.
validatorSettlesAlwaysValid(outcome) ==
  /\ otp.validations # << >>
  /\ \E i \in DOMAIN otp.validations :
       LET code == otp.validations[i]
           rest == [otp EXCEPT !.validations =
                      SubSeq(@, 1, i - 1) \o SubSeq(@, i + 1, Len(@))]
       IN  CodeAccepted(rest, code, "valid")
  /\ UNCHANGED <<upload, autofill, avatar>>

\* The promise of onValidate(code) is settled and handleComplete goes on
\* after its await: a true result accepts the code; a false result and a
\* rejection (the catch block) set the result to false and the cells to
\* 'incorrect'.  finally: isValidating is false.
validatorSettles(outcome) ==
  /\ otp.validations # << >>
  /\ \E i \in DOMAIN otp.validations :
       LET code == otp.validations[i]
           rest == [otp EXCEPT !.validations =
                      SubSeq(@, 1, i - 1) \o SubSeq(@, i + 1, Len(@))]
       IN  IF outcome = "true"
           THEN CodeAccepted(rest, code, "valid")
           ELSE /\ otp' = [rest EXCEPT
                             !.isValidating     = FALSE,
                             !.validationResult = "false",
                             !.cells = setAllCellsState(rest.cells, "incorrect"),
                             !.event = IF outcome = "false" THEN "invalid"
                                       ELSE "rejected",
                             !.code  = code]
                /\ UNCHANGED storeVars
  /\ UNCHANGED <<upload, autofill, avatar>>

\* handleKeyDown(e, index) for the Delete key: the cell is emptied.
handleKeyDown(index) ==
  /\ ~otp.isValidating
  /\ otp' = [otp EXCEPT !.cells = updateCell(@, index, << >>, "default"),
                        !.event = "delete"]
  /\ UNCHANGED storeVars
  /\ UNCHANGED <<upload, autofill, avatar>>

\* handleClear
handleClear ==
  /\ ~otp.isValidating
  /\ otp' = [otp EXCEPT
               !.cells = [i \in 1..length |-> [value |-> "", state |-> "default"]],
               !.isComplete = FALSE,
               !.validationResult = "null",
               !.event = "clear"]
  /\ UNCHANGED storeVars
  /\ UNCHANGED <<upload, autofill, avatar>>

(***************************************************************************)
(* The avatar stack (day 1).  Its handlers run to their end before the     *)
(* next event is handled, and the component is rendered again in between,  *)
(* so a handler reads the isBursting and burstCount of the current state.  *)
(* Hover and focus are left out: no handler below reads them.              *)
(***************************************************************************)

\* The bursts one mounted component is followed through.
MaxBursts == 4

\* useState(false), useState(0); no timer is pending; onBurst and marks
\* count the calls of the onBurst prop and of markDayComplete, event is the
\* handler that ran last.
AvatarMount ==
  [ isBursting |-> FALSE, burstCount |-> 0, timer |-> FALSE,
    onBurst |-> 0, marks |-> 0, event |-> "mount" ]

\* handleBurst: nothing while a burst is in progress; else the burst starts,
\* markDayComplete(1) is called when burstCount is 0, onBurst is called and
\* the 1200 ms timer is set.  An exception of markDayComplete ends the
\* handler before onBurst and setTimeout; the state updates made before it
\* stay.
handleBurst ==
  /\ IF avatar.isBursting
     THEN /\ avatar' = [avatar EXCEPT !.event = "ignored"]
          /\ UNCHANGED storeVars
     ELSE /\ avatar.burstCount < MaxBursts
          /\ LET first  == avatar.burstCount = 0
                 thrown == first /\ SetItemThrows
             IN  /\ avatar' =
                      [ isBursting |-> TRUE,
                        burstCount |-> avatar.burstCount + 1,
                        timer      |-> IF thrown THEN avatar.timer ELSE TRUE,
                        onBurst    |-> IF thrown THEN avatar.onBurst
                                       ELSE avatar.onBurst + 1,
                        marks      |-> IF first THEN avatar.marks + 1
                                       ELSE avatar.marks,
                        event      |-> "burst" ]
                 /\ IF first THEN markDayComplete(1) ELSE UNCHANGED storeVars
  /\ UNCHANGED <<otp, upload, autofill>>

\* The callback of setTimeout(..., 1200): setIsBursting(false).
burstTimer ==
  /\ avatar.timer
  /\ avatar' = [avatar EXCEPT !.isBursting = FALSE, !.timer = FALSE,
                              !.event = "timer"]
  /\ UNCHANGED storeVars
  /\ UNCHANGED <<otp, upload, autofill>>

\* handleModeChange(newMode): setPersona({ mode: newMode }).
handleModeChange(newMode) ==
  /\ setPersona([mode |-> newMode])
  /\ UNCHANGED componentVars

(***************************************************************************)
(* The file upload (day 3).  A file of the list is its id and its status;  *)
(* the progress numbers, the previews and the drag status are left out.    *)
(* processFiles is an async function: it is followed from one await to the *)
(* next, and other handlers run in between.  Its closure holds the         *)
(* uploadedFiles of the render in which the user selected the files.       *)
(***************************************************************************)

\* The maxFiles prop (5 by default); the model follows a shorter list.
maxFiles == 2

\* The processFiles runs in flight at one time, and the files that one
\* mounted component is given.
MaxRuns == 2
MaxIds  == 4

\* The files the user selects or drops, by their extension: accepted images,
\* accepted documents, and a type that validateFile refuses.
BatchInputs == { <<"pdf">>, <<"jpg", "jpg">>, <<"exe">> }

\* validateFile(file) returns no error.
validateFile(file) == file \in {"jpg", "pdf"}

\* createFilePreview(file) waits for a FileReader: other events are handled
\* before it resolves.  For the other files it resolves at once.
createFilePreview(file) == file = "jpg"

\* No run has ended yet.
NoRun == [succeeded |-> FALSE, marked |-> FALSE, first |-> FALSE]

\* useState([]), useState(false); no run and no retry is in flight; nextId
\* stands for crypto.randomUUID(), event is the handler that ran last and
\* finished describes the run that ended last.
UploadMount ==
  [ uploadedFiles |-> << >>, isUploading |-> FALSE, runs |-> {},
    retries |-> {}, nextId |-> 1, event |-> "mount", finished |-> NoRun ]

\* prev.map(f => f.id === id ? { ...f, status } : f)
SetStatus(files, id, status) ==
  [i \in DOMAIN files |->
     IF files[i].id = id THEN [files[i] EXCEPT !.status = status] ELSE files[i]]

\* The end of a processFiles run, after Promise.allSettled: markDayComplete(3)
\* when the uploadedFiles of the closure holds a file of status 'success';
\* finally setIsUploading(false).
FinishRun(u, run) ==
  LET mark == \E i \in DOMAIN run.seen : run.seen[i].status = "success"
  IN
    /\ upload' = [u EXCEPT
                    !.isUploading = FALSE,
                    !.runs        = @ \ {run},
                    !.event       = "finished",
                    !.finished    = [ succeeded |-> run.succeeded,
                                      marked    |-> mark,
                                      first     |-> run.seen = << >> ]]
    /\ IF mark THEN markDayComplete(3) ELSE UNCHANGED storeVars

\* processFiles after its loop: the new files are appended to the list and
\* the uploads of the valid ones start; with no valid file the run ends.
AddFiles(u, run) ==
  LET valid == {run.files[i].id : i \in {j \in DOMAIN run.files :
                                            run.files[j].status = "uploading"}}
      added == [u EXCEPT !.uploadedFiles = @ \o run.files]
      going == [run EXCEPT !.stage = "uploading", !.pending = valid]
  IN
    IF valid = {}
    THEN FinishRun(added, run)
    ELSE /\ upload' = [added EXCEPT !.runs  = (@ \ {run}) \cup {going},
                                    !.event = "added"]
         /\ UNCHANGED storeVars

\* processFiles(files), called by handleFileSelect and by handleDrop, up to
\* its first await that waits: the limit is tested against the list of the
\* closure; then the previews are read.
processFiles(files) ==
  LET seen == upload.uploadedFiles
      run  == [ files     |-> [i \in DOMAIN files |->
                                 [ id     |-> upload.nextId + i - 1,
                                   status |-> IF validateFile(files[i])
                                              THEN "uploading" ELSE "error" ]],
                seen      |-> seen,
                stage     |-> "reading",
                pending   |-> {},
                succeeded |-> FALSE ]
      begun == [upload EXCEPT !.isUploading = TRUE,
                              !.nextId      = @ + Len(files),
                              !.event       = "selected"]
  IN
    /\ IF Len(seen) + Len(files) > maxFiles
       THEN /\ upload' = [upload EXCEPT !.event = "refused"]
            /\ UNCHANGED storeVars
       ELSE /\ upload.nextId + Len(files) - 1 <= MaxIds
            /\ Cardinality(upload.runs) < MaxRuns
            /\ IF \E i \in DOMAIN files : createFilePreview(files[i])
               THEN /\ upload' = [begun EXCEPT !.runs = @ \cup {run}]
                    /\ UNCHANGED storeVars
               ELSE AddFiles(begun, run)
    /\ UNCHANGED <<otp, autofill, avatar>>

\* The previews of a run have been read: processFiles goes on after its loop.
previewsRead(run) ==
  /\ run \in upload.runs
  /\ run.stage = "reading"
  /\ AddFiles(upload, run)
  /\ UNCHANGED <<otp, autofill, avatar>>

\* simulateUpload(file) of a run comes to its end: the file of that id, when
\* the list still holds it, gets the status; when it was the last upload of
\* the run, Promise.allSettled resolves and the run ends.
simulateUpload(run, id, status) ==
  LET settled == [run EXCEPT !.pending   = @ \ {id},
                             !.succeeded = @ \/ status = "success"]
      updated == [upload EXCEPT
                    !.uploadedFiles = SetStatus(@, id, status),
                    !.runs          = (@ \ {run}) \cup {settled},
                    !.event         = "uploaded"]
  IN
    /\ run \in upload.runs
    /\ id \in run.pending
    /\ IF settled.pending = {}
       THEN FinishRun(updated, settled)
       ELSE upload' = updated /\ UNCHANGED storeVars
    /\ UNCHANGED <<otp, autofill, avatar>>

\* retryUpload(id), offered for a file of status 'error'.
retryUpload(id) ==
  /\ \E i \in DOMAIN upload.uploadedFiles :
       upload.uploadedFiles[i].id = id /\ upload.uploadedFiles[i].status = "error"
  /\ id \notin upload.retries
  /\ upload' = [upload EXCEPT
                  !.uploadedFiles = SetStatus(@, id, "uploading"),
                  !.retries       = @ \cup {id},
                  !.event         = "retry"]
  /\ UNCHANGED storeVars
  /\ UNCHANGED <<otp, autofill, avatar>>

\* The simulateUpload that retryUpload awaits comes to its end.
retrySettles(id, status) ==
  /\ id \in upload.retries
  /\ upload' = [upload EXCEPT
                  !.uploadedFiles = SetStatus(@, id, status),
                  !.retries       = @ \ {id},
                  !.event         = "retried"]
  /\ UNCHANGED storeVars
  /\ UNCHANGED <<otp, autofill, avatar>>

\* removeFile(id)
removeFile(id) ==
  /\ \E i \in DOMAIN upload.uploadedFiles : upload.uploadedFiles[i].id = id
  /\ upload' = [upload EXCEPT
                  !.uploadedFiles = SelectSeq(@, LAMBDA f : f.id # id),
                  !.event         = "removed"]
  /\ UNCHANGED storeVars
  /\ UNCHANGED <<otp, autofill, avatar>>

\* clearAll; its button is shown for a list that is not empty and is
\* disabled while isUploading.
clearAll ==
  /\ upload.uploadedFiles # << >>
  /\ ~upload.isUploading
  /\ upload' = [upload EXCEPT !.uploadedFiles = << >>, !.event = "cleared"]
  /\ UNCHANGED storeVars
  /\ UNCHANGED <<otp, autofill, avatar>>

(***************************************************************************)
(* The AI autofill demo (day 7).  handleAutofill is an async function with *)
(* one timer per stage and a last timer that shows the review; nothing     *)
(* clears these timers.  autofillData is the set of stages whose data it   *)
(* holds (the stages fill different fields).  Each button exists only      *)
(* while its section is rendered.                                          *)
(***************************************************************************)

\* AUTOFILL_STAGES.length
AUTOFILL_STAGES == 3

\* The handleAutofill runs in flight at one time.
MaxAutofills == 2

\* What the user types as the project URL, as the sequence of its characters.
UrlInputs == { << >>, <<" ">>, <<"h">>, <<" ", "h">> }

\* text.trim()
RECURSIVE Trim(_)
Trim(text) ==
  IF text = << >> THEN << >>
  ELSE IF Head(text) = " " THEN Trim(Tail(text))
  ELSE IF text[Len(text)] = " " THEN Trim(SubSeq(text, 1, Len(text) - 1))
  ELSE text

\* The useState values of a mounted component; no run is in flight.  runs
\* holds, for each handleAutofill in flight, the index of the stage whose
\* timer it awaits (AUTOFILL_STAGES for the timer of the review).  cancelled
\* (a running autofill was cancelled and none was started since), completed
\* (some run went through all its stages) and event describe the past.
AutofillMount ==
  [ isAutofilling |-> FALSE, currentStage |-> 0, autofillData |-> {},
    showReview |-> FALSE, showConfetti |-> FALSE, isAccepted |-> FALSE,
    inputUrl |-> << >>, showThoughts |-> FALSE,
    runs |-> << >>, cancelled |-> FALSE, completed |-> FALSE,
    event |-> "mount" ]

\* The input section is rendered.
InputSection ==
  ~autofill.isAutofilling /\ ~autofill.showReview /\ ~autofill.isAccepted

\* The review section is rendered.
ReviewSection == autofill.showReview /\ ~autofill.isAccepted

\* onChange of the URL input: setInputUrl(e.target.value)
setInputUrl(text) ==
  /\ InputSection
  /\ autofill' = [autofill EXCEPT !.inputUrl = text, !.event = "url"]
  /\ UNCHANGED storeVars
  /\ UNCHANGED <<otp, upload, avatar>>

\* handleAutofill, up to its first await.
handleAutofill ==
  /\ InputSection
  /\ Trim(autofill.inputUrl) # << >>
  /\ Len(autofill.runs) < MaxAutofills
  /\ autofill' = [autofill EXCEPT
                    !.isAutofilling = TRUE,
                    !.currentStage  = 0,
                    !.autofillData  = {},
                    !.showReview    = FALSE,
                    !.isAccepted    = FALSE,
                    !.showThoughts  = TRUE,
                    !.runs          = Append(@, 0),
                    !.cancelled     = FALSE,
                    !.event         = "autofill"]
  /\ UNCHANGED storeVars
  /\ UNCHANGED <<otp, upload, avatar>>

\* The timer of a stage fires and the loop of handleAutofill goes on:
\* setCurrentStage(i), the data of the stage is merged; after the last
\* stage the timer of the review is set.
stageTimer(r) ==
  /\ r \in DOMAIN autofill.runs
  /\ autofill.runs[r] < AUTOFILL_STAGES
  /\ LET i == autofill.runs[r] IN
       autofill' = [autofill EXCEPT
                      !.currentStage = i,
                      !.autofillData = @ \cup {i},
                      !.runs[r]      = i + 1,
                      !.completed    = @ \/ i + 1 = AUTOFILL_STAGES,
                      !.event        = "stage"]
  /\ UNCHANGED storeVars
  /\ UNCHANGED <<otp, upload, avatar>>

\* The timer set after the last stage fires: the review is shown.
reviewTimer(r) ==
  /\ r \in DOMAIN autofill.runs
  /\ autofill.runs[r] = AUTOFILL_STAGES
  /\ autofill' = [autofill EXCEPT
                    !.isAutofilling = FALSE,
                    !.showReview    = TRUE,
                    !.showThoughts  = FALSE,
                    !.runs          = SubSeq(@, 1, r - 1) \o SubSeq(@, r + 1, Len(@)),
                    !.event         = "review"]
  /\ UNCHANGED storeVars
  /\ UNCHANGED <<otp, upload, avatar>>

\* handleAccept wired to a button that is always there.
handleAcceptAnyTime ==
  /\ ~autofill.isAccepted
  /\ autofill' = [autofill EXCEPT !.isAccepted = TRUE, !.showConfetti = TRUE,
                                  !.event = "accept"]
  /\ markDayComplete(7)
  /\ UNCHANGED <<otp, upload, avatar>>

\* handleAccept, the button of the review section.
handleAccept ==
  /\ ReviewSection
  /\ autofill' = [autofill EXCEPT !.isAccepted = TRUE, !.showConfetti = TRUE,
                                  !.event = "accept"]
  /\ markDayComplete(7)
  /\ UNCHANGED <<otp, upload, avatar>>

\* handleCancel, the button of the progress section and of the review
\* section.  The timers of the runs in flight stay set.
handleCancel ==
  /\ autofill.isAutofilling \/ ReviewSection
  /\ autofill' = [autofill EXCEPT
                    !.isAutofilling = FALSE,
                    !.showReview    = FALSE,
                    !.currentStage  = 0,
                    !.autofillData  = {},
                    !.showThoughts  = FALSE,
                    !.cancelled     = @ \/ autofill.runs # << >>,
                    !.event         = "cancel"]
  /\ UNCHANGED storeVars
  /\ UNCHANGED <<otp, upload, avatar>>

\* handleReset, the button of the success section.
handleReset ==
  /\ autofill.isAccepted
  /\ autofill' = [autofill EXCEPT
                    !.isAutofilling = FALSE,
                    !.showReview    = FALSE,
                    !.isAccepted    = FALSE,
                    !.showConfetti  = FALSE,
                    !.currentStage  = 0,
                    !.autofillData  = {},
                    !.inputUrl      = << >>,
                    !.showThoughts  = FALSE,
                    !.event         = "reset"]
  /\ UNCHANGED storeVars
  /\ UNCHANGED <<otp, upload, avatar>>

\* The timer of the Confetti component (3000 ms): setShowConfetti(false).
Confetti ==
  /\ autofill.showConfetti
  /\ autofill' = [autofill EXCEPT !.showConfetti = FALSE, !.event = "confetti"]
  /\ UNCHANGED storeVars
  /\ UNCHANGED <<otp, upload, avatar>>

(***************************************************************************)
(* The day completion selectors                                            *)
(***************************************************************************)

useIsDay1Complete == Includes(completedDays, 1)
useIsDay2Complete == Includes(completedDays, 2)
useIsDay3Complete == Includes(completedDays, 3)
useIsDay4Complete == Includes(completedDays, 4)
useIsDay5Complete == Includes(completedDays, 5)
useIsDay6Complete == Includes(completedDays, 6)
useIsDay7Complete == Includes(completedDays, 7)

\* The selector of day 8 written with the literal of day 7.
useIsDay8CompleteReadsDay7 == Includes(completedDays, 7)

useIsDay8Complete == Includes(completedDays, 8)

\* A page load: the module is evaluated again, create(persist(...)) builds the
\* store from initialState and rehydrates it from storage.  Nothing is written.
\* The components are mounted anew; the timers and promises of the page that
\* was left are gone with it.
useStore ==
  LET loaded == Rehydrate(storage, storageAvailable) IN
    /\ persona'       = loaded.persona
    /\ profile'       = loaded.profile
    /\ folderItems'   = loaded.folderItems
    /\ formData'      = loaded.formData
    /\ aiStatus'      = loaded.aiStatus
    /\ preferences'   = loaded.preferences
    /\ completedDays' = loaded.completedDays
    /\ threw'         = RehydrateThrows(storage, storageAvailable)
    /\ marked'        = Range(loaded.completedDays)
    /\ Did("useStore", loaded # State)
    /\ otp'      = OtpMount(otp.onValidate)
    /\ upload'   = UploadMount
    /\ autofill' = AutofillMount
    /\ avatar'   = AvatarMount
    /\ UNCHANGED <<storage, storageAvailable, storageFull, otherTab, writer>>

(***************************************************************************)
(* Specifications                                                          *)
(***************************************************************************)

\* The store of a second tab on the same storage, before that tab is opened.
NoTab == [open |-> FALSE, state |-> initialState]

\* A first visit: nothing is stored, the store holds initialState.
Init ==
  /\ storage = NoItem
  /\ storageAvailable = TRUE
  /\ storageFull = FALSE
  /\ otherTab = NoTab
  /\ writer = "none"
  /\ persona       = initialState.persona
  /\ profile       = initialState.profile
  /\ folderItems   = initialState.folderItems
  /\ formData      = initialState.formData
  /\ aiStatus      = initialState.aiStatus
  /\ preferences   = initialState.preferences
  /\ completedDays = initialState.completedDays
  /\ threw  = FALSE
  /\ marked = {}
  /\ last   = [op |-> "useStore", hit |-> FALSE]
  /\ otp      = OtpMount(TRUE)
  /\ upload   = UploadMount
  /\ autofill = AutofillMount
  /\ avatar   = AvatarMount

\* Every operation of the store, with its inputs drawn from the given sets.
Operations(personas, profiles, items, ids, forms, statuses, prefs, days) ==
  \/ \E p \in personas : setPersona(p) /\ UNCHANGED componentVars
  \/ \E p \in profiles : setProfile(p) /\ UNCHANGED componentVars
  \/ \E item \in items : addFolderItem(item) /\ UNCHANGED componentVars
  \/ \E id \in ids : removeFolderItem(id) /\ UNCHANGED componentVars
  \/ \E data \in forms : setFormData(data) /\ UNCHANGED componentVars
  \/ \E status \in statuses : setAiStatus(status) /\ UNCHANGED componentVars
  \/ \E p \in prefs : setPreferences(p) /\ UNCHANGED componentVars
  \/ \E day \in days : markDayComplete(day) /\ UNCHANGED componentVars
  \/ reset /\ UNCHANGED componentVars
  \/ useStore

Next ==
  Operations(PersonaFew, ProfileFew, FolderItemFew, FolderIdFew, FormDataFew,
             AiStatusInputs, PreferencesFew, DayFew)

Spec == Init /\ [][Next]_vars

\* The completed days under study.
NextDays ==
  Operations(PersonaFew, ProfileFew, FolderItemFew, FolderIdFew, FormDataFew,
             AiStatusFew, PreferencesFew, DayInputs)

SpecDays == Init /\ [][NextDays]_vars

\* The eight days of the challenge, for the selectors.
ChallengeDays == 1..8

NextSelectors ==
  Operations(PersonaFew, ProfileFew, FolderItemFew, FolderIdFew, FormDataFew,
             AiStatusFew, PreferencesFew, ChallengeDays)

SpecSelectors == Init /\ [][NextSelectors]_vars

\* The folder under study.
NextFolder ==
  Operations(PersonaFew, ProfileFew, FolderItemInputs, FolderIdInputs,
             FormDataFew, AiStatusFew, PreferencesFew, DayFew)

SpecFolder == Init /\ [][NextFolder]_vars

\* The three records under study.
NextRecords ==
  Operations(PersonaPartials, ProfilePartials, FolderItemFew, FolderIdFew,
             FormDataFew, AiStatusFew, PreferencesPartials, DayFew)

SpecRecords == Init /\ [][NextRecords]_vars

\* The form draft under study.
NextForm ==
  Operations(PersonaFew, ProfileFew, FolderItemFew, FolderIdFew,
             FormDataInputs, AiStatusFew, PreferencesFew, DayFew)

SpecForm == Init /\ [][NextForm]_vars

(***************************************************************************)
(* A return visit: the storage slot holds whatever an earlier session left *)
(* there, and storage may be unavailable (disabled, sandboxed, or a        *)
(* server-side render).  The store is the result of create(persist(...)).  *)
(***************************************************************************)

VisitedState ==
  Spread(initialState,
         [ persona       |-> [mode |-> "playful", colors |-> DefaultColors],
           folderItems   |-> <<[id |-> "a", name |-> "X", type |-> "doc"]>>,
           formData      |-> [foo |-> "bar"],
           completedDays |-> <<1>> ])

StoredItems ==
  { NoItem,
    CorruptItem,
    StoredItem(initialState),
    StoredItem(VisitedState),
    JsonItem([completedDays |-> <<1>>], version) }

InitLoad ==
  /\ storage \in StoredItems
  /\ storageAvailable \in BOOLEAN
  /\ storageFull \in BOOLEAN
  /\ otherTab = NoTab
  /\ writer = "none"
  /\ LET loaded == Rehydrate(storage, storageAvailable) IN
       /\ persona       = loaded.persona
       /\ profile       = loaded.profile
       /\ folderItems   = loaded.folderItems
       /\ formData      = loaded.formData
       /\ aiStatus      = loaded.aiStatus
       /\ preferences   = loaded.preferences
       /\ completedDays = loaded.completedDays
       /\ threw  = RehydrateThrows(storage, storageAvailable)
       /\ marked = Range(loaded.completedDays)
       /\ last   = [op |-> "useStore", hit |-> FALSE]
  /\ otp      = OtpMount(TRUE)
  /\ upload   = UploadMount
  /\ autofill = AutofillMount
  /\ avatar   = AvatarMount

SpecLoad == InitLoad /\ [][Next]_vars

(***************************************************************************)
(* Two tabs.  The second tab runs the same module: its store is rehydrated *)
(* when the tab is opened, lives in that tab's memory, and writes to the   *)
(* same storage slot.  Neither store listens to the other's writes.        *)
(***************************************************************************)

\* The second tab is opened (or reloaded): create(persist(...)) there.
otherTabOpens ==
  /\ otherTab' = [open |-> TRUE, state |-> Rehydrate(storage, storageAvailable)]
  /\ UNCHANGED <<persona, profile, folderItems, formData, aiStatus,
                 preferences, completedDays, storage, storageAvailable,
                 storageFull, threw, marked, last, writer>>
  /\ UNCHANGED componentVars

\* A set of the second tab that writes its days merged with the stored days.
OtherTabSetMergesDays(partial) ==
  LET next   == Spread(otherTab.state, partial)
      stored == IF storage.kind = "json" /\ "completedDays" \in DOMAIN storage.state
                THEN storage.state.completedDays ELSE << >>
      merged == Spread(next, [completedDays |->
                  stored \o SelectSeq(next.completedDays,
                                      LAMBDA d : ~Includes(stored, d))])
  IN
    /\ otherTab.open
    /\ otherTab' = [open |-> TRUE, state |-> next]
    /\ storage'  = IF SetItemWrites THEN StoredItem(merged) ELSE storage
    /\ writer'   = IF SetItemWrites THEN "other" ELSE writer
    /\ UNCHANGED <<persona, profile, folderItems, formData, aiStatus,
                   preferences, completedDays, storageAvailable, storageFull,
                   threw, marked, last>>
    /\ UNCHANGED componentVars

\* set(partial) in the second tab: its own state is updated and written.
OtherTabSet(partial) ==
  LET next == Spread(otherTab.state, partial) IN
    /\ otherTab.open
    /\ otherTab' = [open |-> TRUE, state |-> next]
    /\ storage'  = IF SetItemWrites THEN StoredItem(next) ELSE storage
    /\ writer'   = IF SetItemWrites THEN "other" ELSE writer
    /\ UNCHANGED <<persona, profile, folderItems, formData, aiStatus,
                   preferences, completedDays, storageAvailable, storageFull,
                   threw, marked, last>>
    /\ UNCHANGED componentVars

\* markDayComplete(day) called in the second tab.
otherTabMarkDayComplete(day) ==
  OtherTabSet([completedDays |->
                 IF Includes(otherTab.state.completedDays, day)
                 THEN otherTab.state.completedDays
                 ELSE Sort(Append(otherTab.state.completedDays, day))])

\* setProfile(p) called in the second tab.
otherTabSetProfile(p) ==
  OtherTabSet([profile |-> Spread(otherTab.state.profile, p)])

OtherTabDays     == {2}
OtherTabProfiles == {[role |-> "dev"]}

\* Both tabs mark days and edit the profile; this tab also resets and
\* reloads.  (The product of two full stores is out of reach.)
NextTabs ==
  \/ \E day \in DayFew : markDayComplete(day) /\ UNCHANGED componentVars
  \/ \E p \in ProfileFew : setProfile(p) /\ UNCHANGED componentVars
  \/ \E status \in AiStatusFew : setAiStatus(status) /\ UNCHANGED componentVars
  \/ reset /\ UNCHANGED componentVars
  \/ useStore
  \/ otherTabOpens
  \/ \E day \in OtherTabDays : otherTabMarkDayComplete(day)
  \/ \E p \in OtherTabProfiles : otherTabSetProfile(p)

SpecTabs == Init /\ [][NextTabs]_vars

(***************************************************************************)
(* The components, each with the store it calls.  A page load mounts the   *)
(* component anew.                                                         *)
(***************************************************************************)

\* A first visit to the page of a component; the storage may be full, so
\* that setItem throws.
InitComponent ==
  /\ storage = NoItem
  /\ storageAvailable = TRUE
  /\ storageFull \in BOOLEAN
  /\ otherTab = NoTab
  /\ writer = "none"
  /\ persona       = initialState.persona
  /\ profile       = initialState.profile
  /\ folderItems   = initialState.folderItems
  /\ formData      = initialState.formData
  /\ aiStatus      = initialState.aiStatus
  /\ preferences   = initialState.preferences
  /\ completedDays = initialState.completedDays
  /\ threw  = FALSE
  /\ marked = {}
  /\ last   = [op |-> "useStore", hit |-> FALSE]
  /\ upload   = UploadMount
  /\ autofill = AutofillMount
  /\ avatar   = AvatarMount

\* The OTP input, mounted with a validator or without one.
InitOtp ==
  /\ InitComponent
  /\ otp \in {OtpMount(validator) : validator \in BOOLEAN}

\* The other components, on pages without the OTP input.
InitOther ==
  /\ InitComponent
  /\ otp = OtpMount(TRUE)

NextOtp ==
  \/ \E index \in 1..length, typed \in TypedInputs :
       handleInputChange(index, typed)
  \/ handleCompleteTimer
  \/ \E pasted \in PastedInputs : handlePaste(pasted)
  \/ \E outcome \in ValidatorOutcomes : validatorSettles(outcome)
  \/ \E index \in 1..length : handleKeyDown(index)
  \/ handleClear
  \/ useStore

SpecOtp == InitOtp /\ [][NextOtp]_vars

\* The file upload.
NextUpload ==
  \/ \E files \in BatchInputs : processFiles(files)
  \/ \E run \in upload.runs : previewsRead(run)
  \/ \E run \in upload.runs, id \in 1..MaxIds, status \in {"success", "error"} :
       simulateUpload(run, id, status)
  \/ \E id \in 1..MaxIds : retryUpload(id)
  \/ \E id \in 1..MaxIds, status \in {"success", "error"} :
       retrySettles(id, status)
  \/ \E id \in 1..MaxIds : removeFile(id)
  \/ clearAll
  \/ useStore

SpecUpload == InitOther /\ [][NextUpload]_vars

\* The AI autofill demo.
NextAutofill ==
  \/ \E text \in UrlInputs : setInputUrl(text)
  \/ handleAutofill
  \/ \E r \in 1..MaxAutofills : stageTimer(r)
  \/ \E r \in 1..MaxAutofills : reviewTimer(r)
  \/ handleAccept
  \/ handleCancel
  \/ handleReset
  \/ Confetti
  \/ useStore

SpecAutofill == InitOther /\ [][NextAutofill]_vars

\* The avatar stack.
NextAvatar ==
  \/ handleBurst
  \/ burstTimer
  \/ \E newMode \in PersonaModes : handleModeChange(newMode)
  \/ useStore

SpecAvatar == InitOther /\ [][NextAvatar]_vars

(***************************************************************************)
(* Properties                                                              *)
(***************************************************************************)

\* The members of a set of integers in ascending numeric order.
RECURSIVE Ascending(_)
Ascending(S) ==
  IF S = {} THEN << >>
  ELSE LET m == CHOOSE x \in S : \A y \in S : x <= y
       IN  <<m>> \o Ascending(S \ {m})

\* C1: after any sequence of markDayComplete(n) calls from the default state,
\* completedDays holds exactly the distinct days passed, in ascending numeric
\* order.  (Fails: sort() orders the days as strings, so 10 precedes 2.)
C1_DaysAscending == completedDays = Ascending(marked)

\* C2: in every reachable state completedDays holds no day twice.
C2_NoDuplicateDays ==
  \A i, j \in DOMAIN completedDays :
    i # j => completedDays[i] # completedDays[j]

\* A day that was already complete has been marked again, next to another day.
C2_Witness ==
  /\ last = [op |-> "markDayComplete", hit |-> TRUE]
  /\ Len(completedDays) >= 2

\* C3: in every reachable state every member of completedDays is one of the
\* days 1..8.  (Fails: markDayComplete stores whatever number it is given.)
C3_DaysInRange == \A i \in DOMAIN completedDays : completedDays[i] \in 1..8

\* The six persisted entities of a state.
Entities(state) == partialize(state)

\* C4: a reset step leaves the six entities equal to their defaults, all in
\* that one step, and a reset of a store that holds the defaults changes
\* none of them.
C4_ResetRestoresDefaults ==
  [][reset =>
       /\ Entities(State') = Entities(initialState)
       /\ (Entities(State) = Entities(initialState)
             => Entities(State') = Entities(State))]_vars

\* A reset has acted on a store that did not hold the defaults.
C4_Witness ==
  /\ last = [op |-> "reset", hit |-> TRUE]
  /\ State = initialState

\* The items of a folder list that do not have the given id.
Others(items, id) == {x \in Range(items) : x.id # id}

\* x stands before y in the list.
Before(items, x, y) ==
  \E i, j \in DOMAIN items : i < j /\ items[i] = x /\ items[j] = y

\* The list `after` holds the items of `before` that do not have the id, in
\* the order they had.
KeepsOthers(before, after, id) ==
  /\ Others(after, id) = Others(before, id)
  /\ \A x, y \in Others(before, id) :
       Before(before, x, y) => Before(after, x, y) /\ ~Before(after, y, x)

UniqueIds(items) ==
  \A i, j \in DOMAIN items : items[i].id = items[j].id => i = j

\* C5: folderItems never holds two items of one id, and after
\* addFolderItem(item) exactly one item has item's id and it carries
\* item's name.
C5_OneItemPerId ==
  /\ []UniqueIds(folderItems)
  /\ [][\A item \in FolderItemInputs :
          addFolderItem(item) =>
            /\ Cardinality({i \in DOMAIN folderItems' :
                              folderItems'[i].id = item.id}) = 1
            /\ \A i \in DOMAIN folderItems' :
                 folderItems'[i].id = item.id
                   => folderItems'[i].name = item.name]_vars

\* An item has replaced an item of the same id and another name, next to
\* at least one other item.
C5_Witness ==
  /\ last = [op |-> "addFolderItem", hit |-> TRUE]
  /\ Len(folderItems) >= 2

\* C6 as stated: after addFolderItem(item), item is the first element of
\* folderItems and the other items keep their order behind it.  (Fails: the
\* item is appended.)
C6_NewItemFirst ==
  [][\A item \in FolderItemInputs :
       addFolderItem(item) =>
         /\ Head(folderItems') = item
         /\ KeepsOthers(folderItems, folderItems', item.id)]_vars

\* C6 amended: after addFolderItem(item), item is the last element of
\* folderItems, and the other items keep their previous relative order in
\* front of it, whether item's id was absent or was replaced.
C6_NewItemLast ==
  [][\A item \in FolderItemInputs :
       addFolderItem(item) =>
         /\ folderItems'[Len(folderItems')] = item
         /\ Len(folderItems') = Cardinality(Others(folderItems, item.id)) + 1
         /\ KeepsOthers(folderItems, folderItems', item.id)]_vars

\* An item has replaced the first of three items and now stands last.
C6_Witness ==
  /\ last = [op |-> "addFolderItem", hit |-> TRUE]
  /\ Len(folderItems) = 3
  /\ folderItems[3].id = "a"
  /\ folderItems[1].id = "c"

\* C7: removeFolderItem(id) leaves no item of that id, keeps the other items
\* in their order, raises nothing and changes no other entity; when no item
\* has the id, folderItems is unchanged as well.
C7_RemoveById ==
  [][\A id \in FolderIdInputs :
       removeFolderItem(id) =>
         /\ \A i \in DOMAIN folderItems' : folderItems'[i].id # id
         /\ Len(folderItems') = Cardinality(Others(folderItems, id))
         /\ KeepsOthers(folderItems, folderItems', id)
         /\ ~threw'
         /\ UNCHANGED <<persona, profile, formData, aiStatus, preferences,
                        completedDays>>
         /\ ((\A i \in DOMAIN folderItems : folderItems[i].id # id)
               => folderItems' = folderItems)]_vars

\* An id that no item has was removed from a folder of several items.
C7_Witness ==
  /\ last = [op |-> "removeFolderItem", hit |-> FALSE]
  /\ Len(folderItems) >= 2

\* C8: no key of formData ever maps to undefined, and
\* setFormData({foo: "bar", baz: undefined}) on an empty draft yields
\* exactly {foo: "bar"}.
C8_NoUndefinedInForm ==
  /\ [](\A k \in DOMAIN formData : formData[k] # Undefined)
  /\ [][(formData = EmptyObject
           /\ setFormData([foo |-> "bar", baz |-> Undefined]))
          => formData' = [foo |-> "bar"]]_vars

\* A setFormData that named an undefined value has left {foo: "bar"}.
C8_Witness ==
  /\ last = [op |-> "setFormData", hit |-> TRUE]
  /\ formData = [foo |-> "bar"]

\* The record `after` is `before` with exactly the fields named in p
\* overwritten by p's values.
OverwritesNamed(before, after, p) ==
  /\ DOMAIN after = DOMAIN before \cup DOMAIN p
  /\ \A k \in DOMAIN p : after[k] = p[k]
  /\ \A k \in DOMAIN before \ DOMAIN p : after[k] = before[k]

\* C9: setPersona(p), setProfile(p) and setPreferences(p) overwrite the
\* fields named in p, a field named with the value undefined included, and
\* leave every other field of the record as it was.
C9_PartialMerge ==
  [][/\ \A p \in PersonaPartials :
          setPersona(p) => OverwritesNamed(persona, persona', p)
     /\ \A p \in ProfilePartials :
          setProfile(p) => OverwritesNamed(profile, profile', p)
     /\ \A p \in PreferencesPartials :
          setPreferences(p) => OverwritesNamed(preferences, preferences', p)]_vars

\* setPersona has named mode with the value undefined; colors is as it was set.
C9_Witness ==
  /\ last = [op |-> "setPersona", hit |-> TRUE]
  /\ DOMAIN persona = {"mode", "colors"}
  /\ persona.mode = Undefined
  /\ persona.colors = AltColors

\* C10: after the store is created, no error has reached the caller; when
\* the slot is empty, storage is unavailable or the stored text is not
\* JSON, the state is initialState; when the slot holds a parseable item,
\* every field the item holds is the state's field.
C10_LoadOrDefaults ==
  last.op = "useStore" =>
    /\ ~threw
    /\ (~storageAvailable \/ storage.kind \in {"absent", "corrupt"})
         => State = initialState
    /\ (storageAvailable /\ storage.kind = "json")
         => \A k \in DOMAIN storage.state : State[k] = storage.state[k]

\* The store was created over a slot that holds text that is not JSON.
C10_Witness ==
  /\ last.op = "useStore"
  /\ storageAvailable
  /\ storage = CorruptItem
  /\ State = initialState

\* The fields the persisted object is meant to hold.
PersistedFields ==
  {"persona", "profile", "folderItems", "formData", "preferences",
   "completedDays"}

\* The store was created over a parseable item that lacks persisted fields.
LoadedPartialItem ==
  /\ last.op = "useStore"
  /\ storageAvailable
  /\ storage.kind = "json"
  /\ DOMAIN storage.state # PersistedFields

C12_StorageFollowsState ==
  (SetItemWrites /\ last.op # "useStore") => storage = StoredItem(State)

\* setProfile has set name to undefined: the stored profile has no name, and
\* the stored item is the serialization of the state.
C12_Witness ==
  /\ last = [op |-> "setProfile", hit |-> TRUE]
  /\ SetItemWrites
  /\ storage.kind = "json"
  /\ "name" \notin DOMAIN storage.state.profile
  /\ storage = StoredItem(State)

\* C13: when the storage write of a mutation fails, the mutation raises no
\* error to its caller and the in-memory state reflects it.  (Fails: the
\* exception of setItem leaves the operation; the state is updated.)
C13_WriteFailureSwallowed ==
  [][/\ (SetItemThrows /\ last'.op # "useStore") => ~threw'
     /\ \A day \in DayFew :
          (SetItemThrows /\ markDayComplete(day))
            => Includes(completedDays', day)]_vars

\* C14: the item the store writes holds exactly the six persisted fields
\* (no aiStatus), and after a page load aiStatus is 'idle' whatever it was.
C14_AiStatusNotPersisted ==
  /\ [](storage.kind = "json" => DOMAIN storage.state = PersistedFields)
  /\ [][useStore => aiStatus' = "idle"]_vars

\* A page load over an item the store wrote has changed the state: aiStatus,
\* which was not 'idle', is 'idle' again.
C14_Witness ==
  /\ last = [op |-> "useStore", hit |-> TRUE]
  /\ storage.kind = "json"
  /\ aiStatus = "idle"

\* C15: for every reachable state, writing the persisted subset and
\* rehydrating a fresh store from it gives six entities structurally equal
\* to the originals.  (Fails: a record field that holds undefined is not
\* written, so the rehydrated record lacks the key.)
C15_RoundTrip ==
  Entities(Rehydrate(StoredItem(State), TRUE)) = Entities(State)

\* The store operations other than reset.
KeepingOperations ==
  {"setPersona", "setProfile", "addFolderItem", "removeFolderItem",
   "setFormData", "setAiStatus", "setPreferences", "markDayComplete"}

\* C16: a day that is in completedDays is still in it after any store
\* operation other than reset.
C16_DaysStay ==
  [][last'.op \in KeepingOperations
       => \A d \in Range(completedDays) : Includes(completedDays', d)]_vars

\* A day was added to a list that held other days, and they are still there.
C16_Witness ==
  /\ last = [op |-> "markDayComplete", hit |-> FALSE]
  /\ Len(completedDays) >= 3

\* C17: markDayComplete(d) of a day that is already in completedDays
\* changes neither completedDays nor any other entity.
C17_MarkTwiceIsNoOp ==
  [][\A d \in DayInputs :
       (Includes(completedDays, d) /\ markDayComplete(d))
         => UNCHANGED <<persona, profile, folderItems, formData, aiStatus,
                        preferences, completedDays>>]_vars

\* A day beyond 8 that was already complete has been marked again.
C17_Witness ==
  /\ last = [op |-> "markDayComplete", hit |-> TRUE]
  /\ completedDays = <<MaxDay>>

\* What the selector of day n returns.
SelectorOfDay(n) ==
  CASE n = 1 -> useIsDay1Complete
    [] n = 2 -> useIsDay2Complete
    [] n = 3 -> useIsDay3Complete
    [] n = 4 -> useIsDay4Complete
    [] n = 5 -> useIsDay5Complete
    [] n = 6 -> useIsDay6Complete
    [] n = 7 -> useIsDay7Complete
    [] n = 8 -> useIsDay8Complete

\* C18: for each N in 1..8 the selector useIsDayNComplete is true exactly
\* when N is a member of completedDays.
C18_SelectorsMatchDays ==
  \A n \in ChallengeDays : SelectorOfDay(n) <=> n \in Range(completedDays)

\* Days 5 and 7 are complete and days 4, 6 and 8 are not.
C18_Witness ==
  /\ last.op = "markDayComplete"
  /\ useIsDay5Complete /\ useIsDay7Complete
  /\ ~useIsDay4Complete /\ ~useIsDay6Complete /\ ~useIsDay8Complete

\* C19: for every n outside 1..8, completedDays.includes(n) is false in
\* every reachable state, also after markDayComplete(n).  (Fails: a day
\* beyond 8 is stored like any other, see C3.)
C19_OutsideDaysNeverComplete ==
  \A n \in DayInputs \ ChallengeDays : ~Includes(completedDays, n)

\* C20: with two tabs on one storage slot, the stored item is the persisted
\* subset of the tab that wrote last, whatever the other tab holds.
C20_LastWriterWins ==
  /\ writer = "this"  => storage = StoredItem(State)
  /\ writer = "other" => storage = StoredItem(otherTab.state)

\* This tab marked day 1 after the second tab had loaded; the second tab
\* then marked day 2 and wrote last: the stored days are its days, without
\* day 1.
C20_Witness ==
  /\ writer = "other"
  /\ Includes(completedDays, 1)
  /\ storage.state.completedDays = <<2>>

\* C21: setPersona({mode: m}) validates nothing: for a string m outside the
\* three modes of the type as well, no error is raised and persona.mode is m
\* afterwards.
C21_AnyModeAccepted ==
  [][\A m \in ModeInputs \ {Undefined} :
       setPersona([mode |-> m]) => (persona'.mode = m /\ ~threw')]_vars

\* setPersona has stored a mode that is none of the three modes.
C21_Witness ==
  /\ last.op = "setPersona"
  /\ persona.mode \notin PersonaModes \cup {Undefined}
  /\ ~threw

\* C22: setFormData with a key whose value is undefined leaves the string
\* that key already holds in place; no key of the draft is removed by
\* setFormData.
C22_UndefinedKeepsValue ==
  [][\A data \in FormDataInputs :
       setFormData(data) =>
         /\ DOMAIN formData \subseteq DOMAIN formData'
         /\ \A k \in DOMAIN data \cap DOMAIN formData \cap DOMAIN formData' :
              data[k] = Undefined => formData'[k] = formData[k]]_vars

\* setFormData has named a key as undefined, and both keys of the draft hold
\* a string: the key named as undefined held one before the call.
C22_Witness ==
  /\ last = [op |-> "setFormData", hit |-> TRUE]
  /\ DOMAIN formData = FormKeys

\* C25: every store mutation changes only its own entity.
C25_OnlyOwnEntity ==
  [][/\ last'.op = "markDayComplete"
          => UNCHANGED <<persona, profile, folderItems, formData, preferences,
                         aiStatus>>
     /\ last'.op \in {"addFolderItem", "removeFolderItem"}
          => UNCHANGED <<persona, profile, formData, preferences, aiStatus,
                         completedDays>>
     /\ last'.op = "setFormData"
          => UNCHANGED <<persona, profile, folderItems, preferences, aiStatus,
                         completedDays>>
     /\ last'.op = "setAiStatus"
          => UNCHANGED <<persona, profile, folderItems, formData, preferences,
                         completedDays>>
     /\ last'.op = "setPersona"
          => UNCHANGED <<profile, folderItems, formData, preferences, aiStatus,
                         completedDays>>
     /\ last'.op = "setProfile"
          => UNCHANGED <<persona, folderItems, formData, preferences, aiStatus,
                         completedDays>>
     /\ last'.op = "setPreferences"
          => UNCHANGED <<persona, profile, folderItems, formData, aiStatus,
                         completedDays>>]_vars

\* A day was added while every other entity held a value that is not its
\* default.
C25_Witness ==
  /\ last = [op |-> "markDayComplete", hit |-> FALSE]
  /\ persona.mode = "playful"
  /\ profile.name = "Ada"
  /\ folderItems # << >>
  /\ formData # EmptyObject
  /\ preferences.theme = "light"
  /\ aiStatus = "fetching"

\* Every cell of the OTP input is in the given state.
AllCells(state) == \A i \in 1..length : otp.cells[i].state = state

\* C23: day 2 is marked complete only by a code of exactly `length` digits
\* and only when there is no validator or the validator resolved to true;
\* after a validator result of false or a rejection, day 2 is not added,
\* every cell is 'incorrect' and validationResult is false.
C23_DayTwoOnlyAfterValidCode ==
  [][/\ (~Includes(completedDays, 2) /\ Includes(completedDays', 2))
          => /\ otp'.event \in {"accepted", "valid"}
             /\ otp'.event = "accepted" <=> ~otp.onValidate
             /\ Len(otp'.code) = length
             /\ \A i \in DOMAIN otp'.code : IsDigit(otp'.code[i])
     /\ \A outcome \in {"false", "rejected"} :
          validatorSettles(outcome)
            => /\ completedDays' = completedDays
               /\ AllCells("incorrect")'
               /\ otp'.validationResult = "false"]_vars

\* The validator has rejected: day 2 is not complete, the cells are
\* 'incorrect' and the result is false.
C23_Witness ==
  /\ otp.event = "rejected"
  /\ AllCells("incorrect")
  /\ otp.validationResult = "false"
  /\ Len(otp.code) = length
  /\ ~Includes(completedDays, 2)

\* C28: a burst trigger during a burst changes neither burstCount nor the
\* store nor the calls of onBurst; a burst in progress has its timer set and
\* the timer puts the component back to idle; markDayComplete(1) is called by
\* the first burst of a mounted component and by no later one.  (Fails when
\* the storage is full: the exception of markDayComplete(1), see C13, leaves
\* handleBurst before onBurst is called and before the timer is set, and the
\* burst stays in progress.)
C28_BurstLifecycle ==
  /\ [](avatar.isBursting <=> avatar.timer)
  /\ [](avatar.marks = IF avatar.burstCount = 0 THEN 0 ELSE 1)
  /\ [][/\ (avatar.isBursting /\ handleBurst)
             => /\ avatar'.burstCount = avatar.burstCount
                /\ avatar'.onBurst = avatar.onBurst
                /\ avatar'.marks = avatar.marks
                /\ UNCHANGED storeVars
        /\ burstTimer => ~avatar'.isBursting
        /\ (~avatar.isBursting /\ handleBurst)
             => /\ avatar'.isBursting
                /\ avatar'.onBurst = avatar.onBurst + 1
                /\ avatar.burstCount = 0 => Includes(completedDays', 1)
                /\ avatar.burstCount > 0 => UNCHANGED storeVars]_vars

\* C24: when a processFiles run ends and one of its files finished uploading
\* with status 'success', markDayComplete(3) was called at the end of that
\* run, the first run into an empty list included.  (Fails: the run tests
\* the list of its closure, which was taken before the batch was added.)
C24_SuccessMarksDayThree ==
  (upload.event = "finished" /\ upload.finished.succeeded)
    => upload.finished.marked

\* C29: uploadedFiles never holds more than maxFiles entries.  (Fails: a
\* second selection made while the previews of the first are being read
\* passes the test against the same list, and both batches are appended.)
C29_AtMostMaxFiles == Len(upload.uploadedFiles) <= maxFiles

\* C26: after Cancel during a running autofill, and until a new autofill is
\* started, the review is not shown and no stage data is filled in.  (Fails:
\* the timers of the cancelled run still fire and set both.)
C26_CancelStopsRun ==
  autofill.cancelled
    => (~autofill.showReview /\ autofill.autofillData = {})

\* C27: day 7 is added only by Accept; Accept acts only while the review is
\* shown and the result is not accepted; and the review is shown only after
\* some run went through all three stages.
C27_DaySevenOnlyByAccept ==
  /\ [](autofill.showReview => autofill.completed)
  /\ [][/\ (~Includes(completedDays, 7) /\ Includes(completedDays', 7))
             => (~autofill.isAccepted /\ autofill'.isAccepted
                   /\ autofill'.event = "accept")
        /\ handleAccept
             => (autofill.showReview /\ ~autofill.isAccepted
                   /\ autofill.completed)]_vars

\* Accept has just marked day 7, after a run that went through its stages.
C27_Witness ==
  /\ autofill.event = "accept"
  /\ autofill.isAccepted
  /\ autofill.completed
  /\ last = [op |-> "markDayComplete", hit |-> FALSE]
  /\ Includes(completedDays, 7)

====
